---- MODULE Spec2Model ----
(***************************************************************************)
(* Live-call core of the Barberflow front end:                             *)
(*   - useConversationState  (src/src/hooks/useConversationState.js)       *)
(*   - CallPreview           (src/unnamed/part_002)                        *)
(*   - Home, call handlers   (src/unnamed/part_005)                        *)
(*   - VoiceActivityDetection (src/unnamed/part_001)                       *)
(*                                                                         *)
(* React specifics that the model keeps:                                   *)
(*   * a handler reads the `conversation` object of the render that        *)
(*     created it.  Handlers wired through JSX and effects belong to the   *)
(*     latest commit.  The callbacks handed to createVAD are stored once   *)
(*     in the VAD object, so they keep the `conversation` (and the         *)
(*     onVoiceInput prop) of the render whose startListening created the   *)
(*     VAD: vad.cs / vad.mode / vad.convMode below.                        *)
(*   * effects run in declaration order after each commit; the effect of   *)
(*     line 51 runs before the effect of line 207 stores the new           *)
(*     startListening in startListeningRef, so it calls the startListening *)
(*     of the previous commit (cp.last).                                   *)
(*   * every dispatch yields a new state object, hence a new commit.       *)
(***************************************************************************)
EXTENDS Integers, Sequences, FiniteSets, TLC

\* ---------------------------------------------------------------- bounds
MaxSessions == 2
MaxLeaked == 1
MaxChunks == 2
MaxPending == 2
MaxTimers == 1
MaxUtterances == 1
\* the same limits while the forwarding link is driven from outside (SpecOpen)
MaxOpenSessions == 1
MaxOpenChunks == 1
MaxOpenPending == 1
\* the detector's clock: largest time, largest step between two frames
MaxTime == 9
MaxStep == 2
\* longest reply text handed to the speech functions
MaxLen == 3
MaxRecordings == 2
MaxStray == 1

\* ------------------------------------------------------ program constants
errorTimeout == 5000
sessionTimeout == 300000
autoReturnToListening == TRUE
\* options.maxExchanges || 50 in the source; scaled down to keep the state space finite
maxExchanges == 2
\* VAD_PRESETS.normal and the constructor's default, in milliseconds in the
\* source (1500, 500, 30000); scaled down to clock units
silenceThreshold == 30
speechTimeout == 2
minSpeechDuration == 2
maxSpeechDuration == 4

VARIABLES conv, tm, cp, home, dirty, ev, log, link, vd, tx, vc

vars == <<conv, tm, cp, home, dirty, ev, log, link, vd, tx, vc>>

CONVERSATION_STATES ==
  {"idle", "listening", "processing", "speaking", "interrupted", "error"}

CONVERSATION_MODES == {"idle", "conversational"}

\* null is 0 for sessionId; startTime, lastActivity and error keep only
\* whether they are null (FALSE) or set (TRUE); metadata is "empty" for {}
\* and "set" once updateSession has merged a non-empty object into it.
initialState ==
  [mode |-> "idle", currentState |-> "idle", isActive |-> FALSE,
   canInterrupt |-> FALSE, sessionId |-> 0, startTime |-> FALSE,
   lastActivity |-> FALSE, exchangeCount |-> 0, error |-> FALSE,
   metadata |-> "empty"]

ModeTarget(state) ==
  IF state.mode = "conversational" THEN "listening" ELSE "idle"

conversationReducer(state, action) ==
  CASE action.type = "START_CONVERSATION" ->
         [state EXCEPT !.mode = "conversational", !.currentState = "listening",
                       !.isActive = TRUE, !.sessionId = action.sessionId,
                       !.startTime = TRUE, !.lastActivity = TRUE,
                       !.exchangeCount = 0, !.error = FALSE,
                       !.metadata = "empty"]
    [] action.type = "END_CONVERSATION" ->
         [state EXCEPT !.mode = "idle", !.currentState = "idle",
                       !.isActive = FALSE, !.canInterrupt = FALSE,
                       !.sessionId = 0, !.startTime = FALSE,
                       !.lastActivity = TRUE, !.error = FALSE]
    [] action.type = "START_LISTENING" ->
         [state EXCEPT !.currentState = "listening", !.canInterrupt = FALSE,
                       !.lastActivity = TRUE, !.error = FALSE]
    [] action.type = "SPEECH_DETECTED" ->
         [state EXCEPT !.currentState = "processing", !.lastActivity = TRUE]
    [] action.type = "START_PROCESSING" ->
         [state EXCEPT !.currentState = "processing", !.canInterrupt = FALSE,
                       !.lastActivity = TRUE]
    [] action.type = "START_SPEAKING" ->
         [state EXCEPT !.currentState = "speaking", !.canInterrupt = TRUE,
                       !.lastActivity = TRUE,
                       !.exchangeCount = state.exchangeCount + 1]
    [] action.type = "FINISH_SPEAKING" ->
         [state EXCEPT !.currentState = ModeTarget(state),
                       !.canInterrupt = FALSE, !.lastActivity = TRUE]
    [] action.type = "INTERRUPT_SPEAKING" ->
         [state EXCEPT !.currentState = "interrupted", !.canInterrupt = FALSE,
                       !.lastActivity = TRUE]
    [] action.type = "ERROR_OCCURRED" ->
         [state EXCEPT !.currentState = "error", !.canInterrupt = FALSE,
                       !.error = TRUE, !.lastActivity = TRUE]
    [] action.type = "RESET_ERROR" ->
         [state EXCEPT !.currentState = ModeTarget(state), !.error = FALSE,
                       !.lastActivity = TRUE]
    [] action.type = "UPDATE_SESSION" ->
         [state EXCEPT !.metadata = "set", !.lastActivity = TRUE]
    [] OTHER -> state

\* ------------------------------------------------------------------------
\* The mutable world a handler runs in: the reducer state, the hook's timer
\* refs and timers, CallPreview's refs and state, Home's call state.
\* Handlers are operators from a world to the world they leave behind.
\* ------------------------------------------------------------------------
\* ev names the last step; log lists the reducer actions it dispatched.
World ==
  [conv |-> conv, tm |-> tm, cp |-> cp, home |-> home, dirty |-> dirty,
   log |-> <<>>]

Act(type) == [type |-> type, sessionId |-> 0]

\* useReducer's dispatch: the reducer always returns a new object, so the
\* component renders again.
dispatch(w, action) ==
  [w EXCEPT !.conv = conversationReducer(w.conv, action), !.dirty = TRUE,
            !.log = Append(@, action.type)]

\* tm.errRef: the timer held by errorTimeoutRef is pending;
\* tm.errLeaked: pending error timers no ref points to any more;
\* tm.sessionTimers: session ids whose timeout is pending;
\* tm.sessionTimeoutRef: the id held by sessionTimeoutRef (0 = null);
\* tm.interruptTimers: pending 100 ms return-to-listening timers;
\* tm.armed: setError was called after the last clearError or
\*   endConversation (history only).
\* variant: the session timer is left pending
endConversation_keepsTimer(w) ==
  LET w1 == dispatch(w, Act("END_CONVERSATION"))
  IN  [w1 EXCEPT !.tm.errRef = FALSE, !.tm.armed = FALSE,
                 !.tm.sessionTimeoutRef = 0]

\* variant: the exchange counter is reset with the session
endConversation_resetsCount(w) ==
  LET w1 == dispatch(w, Act("END_CONVERSATION"))
  IN  [w1 EXCEPT !.conv.exchangeCount = 0, !.tm.errRef = FALSE,
                 !.tm.armed = FALSE,
                 !.tm.sessionTimers = @ \ {w1.tm.sessionTimeoutRef},
                 !.tm.sessionTimeoutRef = 0]

endConversation(w) ==
  LET w1 == dispatch(w, Act("END_CONVERSATION"))
      w2 == [w1 EXCEPT !.tm.errRef = FALSE, !.tm.armed = FALSE]
  IN  IF w2.tm.sessionTimeoutRef # 0
        THEN [w2 EXCEPT !.tm.sessionTimers = @ \ {w2.tm.sessionTimeoutRef},
                        !.tm.sessionTimeoutRef = 0]
        ELSE w2

startConversation(w) ==
  LET id == w.tm.nextSession
      w1 == dispatch(w, [type |-> "START_CONVERSATION", sessionId |-> id])
      w2 == [w1 EXCEPT !.tm.nextSession = id + 1]
  IN  IF sessionTimeout > 0
        THEN [w2 EXCEPT !.tm.sessionTimers = @ \cup {id},
                        !.tm.sessionTimeoutRef = id]
        ELSE w2

hookStartListening(w) == dispatch(w, Act("START_LISTENING"))

\* cs is state.currentState of the render that created the callback
onSpeechDetected(w, cs) ==
  IF cs = "listening" THEN dispatch(w, Act("SPEECH_DETECTED")) ELSE w

startProcessing(w) == dispatch(w, Act("START_PROCESSING"))

\* variant: the limit is tested with > instead of >=
startSpeaking_offByOne(w, count) ==
  IF maxExchanges > 0 /\ count > maxExchanges
    THEN endConversation(w)
    ELSE dispatch(w, Act("START_SPEAKING"))

\* count is state.exchangeCount of the render that created the callback
startSpeaking(w, count) ==
  IF maxExchanges > 0 /\ count >= maxExchanges
    THEN endConversation(w)
    ELSE dispatch(w, Act("START_SPEAKING"))

\* variant: speaking always ends in listening
finishSpeaking_toListening(w) == dispatch(w, Act("START_LISTENING"))

finishSpeaking(w) == dispatch(w, Act("FINISH_SPEAKING"))

\* can is state.canInterrupt of the render that created the callback
interruptSpeaking(w, can) ==
  IF can
    THEN LET w1 == dispatch(w, Act("INTERRUPT_SPEAKING"))
         IN  IF autoReturnToListening
               THEN [w1 EXCEPT !.tm.interruptTimers = @ + 1]
               ELSE w1
    ELSE w

\* variant: no auto-clear timer is armed
setError_noTimer(w) ==
  dispatch([w EXCEPT !.tm.armed = TRUE], Act("ERROR_OCCURRED"))

setError(w) ==
  LET w1 == dispatch([w EXCEPT !.tm.armed = TRUE], Act("ERROR_OCCURRED"))
  IN  IF errorTimeout > 0
        THEN [w1 EXCEPT !.tm.errLeaked = IF w1.tm.errRef THEN @ + 1 ELSE @,
                        !.tm.errRef = TRUE]
        ELSE w1

clearError(w) ==
  dispatch([w EXCEPT !.tm.errRef = FALSE, !.tm.armed = FALSE],
           Act("RESET_ERROR"))

\* updateSession called with a non-empty metadata object
updateSession(w) == dispatch(w, Act("UPDATE_SESSION"))

canInterrupt(state) == state.canInterrupt /\ state.currentState = "speaking"

\* ------------------------------------------------------------------------
\* Home (the parent): the call handlers and the state they set.
\* home.speechSynthesisRef: speechSynthesisRef.current holds an utterance;
\* home.blob: the number of chunks in the audioBlob of that request;
\* home.request: a voiceChat request of handleCallSubmit is in flight
\*   ("none", or the conversationalMode its closure saw: "live" / "off");
\* home.speakTimers: pending 300 ms timers that will speak a reply;
\* home.engineQueue: utterances window.speechSynthesis is speaking or holds;
\* home.endEvents: cancelled utterances whose end/error event is still queued.
\* ------------------------------------------------------------------------
HomeState(h) ==
  <<h.conversationalMode, h.isCallRecording, h.isCallProcessing,
    h.isCallSpeaking, h.error>>

\* a setState that changes nothing does not render again
setHome(w, h) ==
  [w EXCEPT !.home = h, !.dirty = w.dirty \/ HomeState(h) # HomeState(w.home),
            !.cp.counted = @ /\ h.isCallSpeaking]

\* window.speechSynthesis.cancel(): every utterance of the queue is dropped
\* and later gets its end/error event
cancelSpeech(h) ==
  [h EXCEPT !.engineQueue = 0, !.endEvents = @ + h.engineQueue]

stopSpeaking(w) ==
  IF w.home.speechSynthesisRef
    THEN setHome(w, [cancelSpeech(w.home) EXCEPT !.speechSynthesisRef = FALSE])
    ELSE w

startCall(w) ==
  IF w.home.isCallRecording \/ w.home.isCallProcessing
    THEN w
    ELSE LET w1 == stopSpeaking(w)
         IN  setHome(w1, [w1.home EXCEPT !.conversationalMode = TRUE,
                                         !.isCallRecording = TRUE,
                                         !.error = FALSE])

stopCall(w) ==
  LET h == IF w.home.speechSynthesisRef
             THEN [cancelSpeech(w.home) EXCEPT !.isCallSpeaking = FALSE,
                                               !.speechSynthesisRef = FALSE]
             ELSE w.home
  IN  setHome(w, [h EXCEPT !.conversationalMode = FALSE,
                           !.isCallRecording = FALSE,
                           !.isCallProcessing = FALSE,
                           !.isCallSpeaking = FALSE])

\* the reply is never empty here: handleCallSubmit tests it before the timer
speakTextWithInterruption(w) ==
  LET h == IF w.home.speechSynthesisRef THEN cancelSpeech(w.home) ELSE w.home
  IN  setHome([w EXCEPT !.cp.counted = FALSE],
              [h EXCEPT !.isCallSpeaking = TRUE,
                        !.speechSynthesisRef = TRUE,
                        !.engineQueue = @ + 1])

\* utterance.onend and utterance.onerror, with the onComplete of handleCallSubmit
utteranceDone(w) ==
  setHome(w, [w.home EXCEPT !.isCallSpeaking = FALSE,
                            !.speechSynthesisRef = FALSE])

\* live is the conversationalMode seen by the handleCallSubmit that runs:
\* the one of the render whose onVoiceInput prop the caller holds
handleCallSubmit(w, live, audioBlob) ==
  setHome(w, [w.home EXCEPT !.isCallProcessing = TRUE, !.error = FALSE,
                            !.request = IF live THEN "live" ELSE "off",
                            !.blob = audioBlob])

\* handleCallSubmit after voiceChat resolved with a reply (empty or not)
callReplied(w, nonEmpty) ==
  LET speak == nonEmpty /\ w.home.request = "live"
  IN  setHome(w, [w.home EXCEPT !.isCallProcessing = FALSE,
                                !.request = "none", !.blob = 0,
                                !.speakTimers = IF speak THEN @ + 1 ELSE @])

\* handleCallSubmit's catch: voiceChat threw
callFailed(w) ==
  setHome(w, [w.home EXCEPT !.error = TRUE, !.isCallProcessing = FALSE,
                            !.request = "none", !.blob = 0])

\* variant: the utterance is left playing
handleCallInterrupt_noCancel(w) == w

handleCallInterrupt(w) ==
  IF w.home.speechSynthesisRef /\ w.home.isCallSpeaking
    THEN setHome(w, [cancelSpeech(w.home) EXCEPT !.isCallSpeaking = FALSE,
                                                 !.speechSynthesisRef = FALSE])
    ELSE w

\* ------------------------------------------------------------------------
\* CallPreview.
\* cp.vad: vadRef.current (exists = FALSE for null) with the VAD's isActive
\*   and isSpeaking and the render its callbacks closed over;
\* cp.audioStream: audioStreamRef.current is set;
\* cp.strayStreams: streams with live tracks that audioStreamRef.current
\*   held until a later getUserMedia result was assigned over them;
\* cp.mediaRecorder: "null", or the recorder's state;
\* cp.audioChunks: number of chunks in audioChunksRef.current;
\* cp.counted: the speaking-sync effect has dispatched START_SPEAKING for
\*   the reply Home is speaking (history only);
\* cp.restartTimer: the 300 ms timer of the effect of line 284 is pending;
\* cp.slPending: the startListening calls waiting for getUserMedia, each
\*   with the render it closes over;
\* cp.last: the previous commit: its effect dependencies, and the render
\*   that startListeningRef.current closes over.
\* ------------------------------------------------------------------------
\* heardIn: the conversation state at the speech start of the segment the
\*   detector is in ("none" outside a segment); history only
NoVad ==
  [exists |-> FALSE, isActive |-> FALSE, isSpeaking |-> FALSE,
   heardIn |-> "none", cs |-> "idle", mode |-> "idle", convMode |-> FALSE]

Rendered(w) ==
  [cs |-> w.conv.currentState, mode |-> w.conv.mode,
   convMode |-> w.home.conversationalMode]

\* cl is the render the running processAudioInput closes over
processAudioInput(w, cl) ==
  IF w.cp.audioChunks = 0
    THEN w
    ELSE LET w1 == IF cl.cs # "processing" THEN startProcessing(w) ELSE w
             w2 == [w1 EXCEPT !.cp.audioChunks = 0]
         IN  handleCallSubmit(w2, cl.convMode, w.cp.audioChunks)

onSpeechStart(w, cl) ==
  IF cl.cs = "listening" THEN onSpeechDetected(w, cl.cs) ELSE w

onSpeechEnd(w, cl) ==
  IF cl.cs = "processing" /\ w.cp.audioChunks > 0
    THEN processAudioInput(w, cl)
    ELSE IF cl.cs = "listening"
           THEN [w EXCEPT !.cp.audioChunks = 0]
           ELSE w

\* createVAD resolves (ok) or VoiceActivityDetection.initialize throws: then
\* its catch calls the onError callback and rethrows into initializeVAD's catch
initializeVAD(w, cl, ok) ==
  IF ok
    THEN [w EXCEPT !.cp.vad = [exists |-> TRUE, isActive |-> TRUE,
                               isSpeaking |-> FALSE, heardIn |-> "none",
                               cs |-> cl.cs,
                               mode |-> cl.mode, convMode |-> cl.convMode],
                   !.cp.vadError = FALSE,
                   !.dirty = w.dirty \/ w.cp.vadError]
    ELSE LET w1 == setError([w EXCEPT !.cp.vadError = TRUE])
         IN  setError(w1)

\* startListening from the point where audioStreamRef.current is set
startListeningRest(w, cl, vadOk) ==
  LET w1 == IF w.cp.mediaRecorder = "null"
              THEN [w EXCEPT !.cp.mediaRecorder = "inactive",
                             !.cp.audioChunks = 0]
              ELSE w
      w2 == IF w1.cp.mediaRecorder = "inactive"
              THEN [w1 EXCEPT !.cp.mediaRecorder = "recording"]
              ELSE w1
  IN  IF ~w2.cp.vad.exists
        THEN initializeVAD(w2, cl, vadOk)
        ELSE IF ~w2.cp.vad.isActive
               THEN [w2 EXCEPT !.cp.vad.isActive = TRUE,
                               !.cp.vad.isSpeaking = FALSE,
                               !.cp.vad.heardIn = "none"]
               ELSE w2

\* startListening up to its first await
startListening(w, cl, vadOk) ==
  IF ~w.cp.audioStream
    THEN [w EXCEPT !.cp.slPending = Append(@, cl)]
    ELSE startListeningRest(w, cl, vadOk)

\* VoiceActivityDetection.destroy, through stop and handleSpeechEnd
vadDestroy(w) ==
  LET cl == w.cp.vad
      w1 == [w EXCEPT !.cp.vad.isActive = FALSE, !.cp.vad.isSpeaking = FALSE,
                      !.cp.vad.heardIn = "none"]
  IN  IF cl.isSpeaking THEN onSpeechEnd(w1, cl) ELSE w1

cleanup(w) ==
  LET w1 == IF w.cp.vad.exists
              THEN [vadDestroy(w) EXCEPT !.cp.vad = NoVad]
              ELSE w
  IN  [w1 EXCEPT !.cp.mediaRecorder = "null", !.cp.audioStream = FALSE,
                 !.cp.audioChunks = 0, !.cp.vadError = FALSE,
                 !.dirty = w1.dirty \/ w1.cp.vadError]

handleConversationToggle(w) ==
  IF w.conv.mode = "conversational"
    THEN stopCall(cleanup(endConversation(w)))
    ELSE startCall(startConversation(w))

handleInterrupt(w) ==
  IF canInterrupt(w.conv)
    THEN handleCallInterrupt(interruptSpeaking(w, w.conv.canInterrupt))
    ELSE w

\* The effects of one commit, in declaration order: line 51 (start listening
\* with the startListening of the previous commit), line 207 (store the new
\* startListening), line 273 (speaking sync), line 284 (restart timer).
EffectStartListening(w, new, old, vadOk) ==
  IF <<new.convMode, new.mode, new.cs>> # <<old.convMode, old.mode, old.cs>>
     /\ new.convMode /\ new.mode = "conversational" /\ new.cs = "listening"
    THEN startListening(w, old, vadOk)
    ELSE w

EffectSpeakingSync(w, new, isSpeaking, count) ==
  IF isSpeaking /\ new.cs # "speaking"
    THEN LET w1 == startSpeaking(w, count)
         IN  [w1 EXCEPT !.cp.counted =
                @ \/ \E i \in DOMAIN w1.log : w1.log[i] = "START_SPEAKING"]
    ELSE IF ~isSpeaking /\ new.cs = "speaking"
           THEN finishSpeaking(w)
           ELSE w

EffectRestartTimer(w, new, old) ==
  IF <<new.cs, new.mode>> # <<old.cs, old.mode>>
    THEN [w EXCEPT !.cp.restartTimer =
                     (new.cs = "listening" /\ new.mode = "conversational")]
    ELSE w

CommitEffects(w, vadOk) ==
  LET new == Rendered(w)
      old == w.cp.last
      isSpeaking == w.home.isCallSpeaking
      count == w.conv.exchangeCount
      w0 == [w EXCEPT !.dirty = FALSE]
      w1 == EffectStartListening(w0, new, old, vadOk)
      w2 == [w1 EXCEPT !.cp.last = new]
      w3 == EffectSpeakingSync(w2, new, isSpeaking, count)
  IN  EffectRestartTimer(w3, new, old)

\* ------------------------------------------------------------------------
\* VoiceActivityDetection, frame by frame.
\* vd.speechStartTime, vd.lastSpeechTime, vd.silenceStartTime: 0 is null
\*   (Date.now() is never 0, and the code tests silenceStartTime by truth);
\* vd.now: the value Date.now() returned last;
\* vd.fired: the callbacks the last step invoked, in order;
\* vd.reported: the duration the last onSpeechEnd was given;
\* vd.frames: the frames analysed since start(), each with its time and
\*   whether its volume was above the threshold;
\* vd.calls: the callbacks invoked since start(), each with its time;
\* vd.segStart: the time of the frame that invoked onSpeechStart last;
\* vd.volume: the last step invoked onVolumeChange.
\* ------------------------------------------------------------------------
Volumes == {silenceThreshold, silenceThreshold + 1}

VoiceActivityDetection ==
  [isActive |-> FALSE, isSpeaking |-> FALSE, speechStartTime |-> 0,
   lastSpeechTime |-> 0, silenceStartTime |-> 0, now |-> 1,
   fired |-> <<>>, reported |-> 0, frames |-> <<>>, calls |-> <<>>,
   segStart |-> 0, volume |-> FALSE]

Invoke(d, name, t) ==
  [d EXCEPT !.fired = Append(@, name),
            !.calls = Append(@, [name |-> name, t |-> t])]

\* t is the Date.now() of line 241
handleSpeechEnd(d, t) ==
  IF d.isSpeaking
    THEN LET speechDuration ==
               (IF d.silenceStartTime # 0 THEN d.silenceStartTime ELSE t)
                 - d.speechStartTime
             d1 == Invoke([d EXCEPT !.isSpeaking = FALSE,
                                    !.reported = speechDuration],
                          "onSpeechEnd", t)
         IN  [d1 EXCEPT !.speechStartTime = 0, !.silenceStartTime = 0]
    ELSE d

\* variant: a segment is never cut off
handleSpeechDetected_noCutoff(d, currentTime) ==
  LET d1 == [d EXCEPT !.lastSpeechTime = currentTime, !.silenceStartTime = 0]
  IN  IF ~d1.isSpeaking
        THEN Invoke([d1 EXCEPT !.speechStartTime = currentTime,
                               !.isSpeaking = TRUE,
                               !.segStart = currentTime],
                    "onSpeechStart", currentTime)
        ELSE d1

handleSpeechDetected(d, currentTime) ==
  LET d1 == [d EXCEPT !.lastSpeechTime = currentTime, !.silenceStartTime = 0]
      d2 == IF ~d1.isSpeaking
              THEN Invoke([d1 EXCEPT !.speechStartTime = currentTime,
                                     !.isSpeaking = TRUE,
                                     !.segStart = currentTime],
                          "onSpeechStart", currentTime)
              ELSE d1
      speechDuration == currentTime - d2.speechStartTime
  IN  IF speechDuration > maxSpeechDuration
        THEN handleSpeechEnd(d2, currentTime)
        ELSE d2

\* variant: the segment ends as soon as the silence reaches speechTimeout
handleSilenceDetected_eager(d, currentTime) ==
  IF d.isSpeaking
    THEN LET d1 == IF d.silenceStartTime = 0
                     THEN [d EXCEPT !.silenceStartTime = currentTime]
                     ELSE d
             silenceDuration == currentTime - d1.silenceStartTime
             speechDuration == d1.silenceStartTime - d1.speechStartTime
         IN  IF silenceDuration >= speechTimeout
               THEN IF speechDuration >= minSpeechDuration
                      THEN handleSpeechEnd(d1, currentTime)
                      ELSE [d1 EXCEPT !.isSpeaking = FALSE,
                                      !.speechStartTime = 0,
                                      !.silenceStartTime = 0]
               ELSE d1
    ELSE d

handleSilenceDetected(d, currentTime) ==
  IF d.isSpeaking
    THEN LET d1 == IF d.silenceStartTime = 0
                     THEN [d EXCEPT !.silenceStartTime = currentTime]
                     ELSE d
             silenceDuration == currentTime - d1.silenceStartTime
             speechDuration == d1.silenceStartTime - d1.speechStartTime
         IN  IF silenceDuration > speechTimeout
               THEN IF speechDuration >= minSpeechDuration
                      THEN handleSpeechEnd(d1, currentTime)
                      ELSE [d1 EXCEPT !.isSpeaking = FALSE,
                                      !.speechStartTime = 0,
                                      !.silenceStartTime = 0]
               ELSE d1
    ELSE d

\* one turn of the requestAnimationFrame loop
analyzeAudio(d, volume, currentTime) ==
  IF ~d.isActive
    THEN [d EXCEPT !.fired = <<>>, !.volume = FALSE]
    ELSE LET isSpeechDetected == volume > silenceThreshold
             d1 == [d EXCEPT !.now = currentTime, !.fired = <<>>,
                             !.volume = TRUE,
                             !.frames = Append(@, [t |-> currentTime,
                                                   speech |-> isSpeechDetected])]
         IN  IF isSpeechDetected
               THEN handleSpeechDetected(d1, currentTime)
               ELSE handleSilenceDetected(d1, currentTime)

\* start, with the turn of the loop it runs itself
start(d, volume) ==
  analyzeAudio([d EXCEPT !.isActive = TRUE, !.isSpeaking = FALSE,
                         !.speechStartTime = 0, !.lastSpeechTime = 0,
                         !.silenceStartTime = 0, !.fired = <<>>,
                         !.frames = <<>>, !.calls = <<>>, !.segStart = 0],
               volume, d.now)

\* variant: an open segment is dropped without its onSpeechEnd
stop_noSpeechEnd(d, t) ==
  [d EXCEPT !.isActive = FALSE, !.isSpeaking = FALSE, !.now = t,
            !.fired = <<>>, !.volume = FALSE]

stop(d, t) ==
  LET d1 == [d EXCEPT !.isActive = FALSE, !.now = t, !.fired = <<>>,
                      !.volume = FALSE]
  IN  IF d1.isSpeaking THEN handleSpeechEnd(d1, t) ELSE d1

\* ------------------------------------------------------------------------
\* Text for speech (cleanMarkdownForSpeech, formatForSpeech) and the text
\* the speech functions hand to SpeechSynthesisUtterance.
\* A string is a sequence of characters drawn from Chars; a word the code
\* inserts ("Item:", "emphasized", ...) is one element of the sequence.
\* Chars has no newline, bracket, parenthesis, '>', '+' or digit, so ^ and $
\* are the ends of the string, \s is the space, and the link, image,
\* blockquote and numbered-list rules have nothing to match.
\* ------------------------------------------------------------------------
Chars == {"a", " ", "#", "*", "_", "backtick", "~", "|", "-"}

MarkdownChars == {"#", "*", "_", "backtick", "~", "|"}

Texts == UNION {[1..n -> Chars] : n \in 0..MaxLen}

RECURSIVE Run(_, _, _)
\* how many consecutive characters of cls start at position i
Run(str, i, cls) ==
  IF i <= Len(str) /\ str[i] \in cls THEN 1 + Run(str, i + 1, cls) ELSE 0

StartsWith(str, i, d, n) ==
  \A k \in 0..(n - 1) : i + k <= Len(str) /\ str[i + k] = d

From(str, i) == SubSeq(str, i, Len(str))

RECURSIVE ReplaceDelimited(_, _, _, _, _)
\* str.replace(/D([^d]+)D/g, pre $1) from position i on, D being n
\* times the character d
ReplaceDelimited(str, i, d, n, pre) ==
  IF i > Len(str)
    THEN <<>>
    ELSE LET c == Run(str, i + n, Chars \ {d})
         IN  IF StartsWith(str, i, d, n) /\ c >= 1
                /\ StartsWith(str, i + n + c, d, n)
               THEN pre \o SubSeq(str, i + n, i + n + c - 1)
                      \o ReplaceDelimited(str, i + 2 * n + c, d, n, pre)
               ELSE <<str[i]>> \o ReplaceDelimited(str, i + 1, d, n, pre)

RECURSIVE ReplaceCodeBlocks(_, _)
\* str.replace of a fenced code block (three backticks, lazily up to the
\* next three) by ' code block ', from position i on
ReplaceCodeBlocks(str, i) ==
  IF i > Len(str)
    THEN <<>>
    ELSE LET closing == {j \in (i + 3)..Len(str) : StartsWith(str, j, "backtick", 3)}
         IN  IF StartsWith(str, i, "backtick", 3) /\ closing # {}
               THEN LET j == CHOOSE x \in closing : \A y \in closing : x <= y
                    IN  <<" ", "code block", " ">>
                          \o ReplaceCodeBlocks(str, j + 3)
               ELSE <<str[i]>> \o ReplaceCodeBlocks(str, i + 1)

\* str.replace(/^#{1,6}\s+/gm, '')
RemoveHeaderMarks(str) ==
  LET h == Run(str, 1, {"#"})
      sp == Run(str, h + 1, {" "})
  IN  IF h >= 1 /\ h <= 6 /\ sp >= 1 THEN From(str, h + sp + 1) ELSE str

\* str.replace(/^[-*]{3,}$/gm, '')
RemoveRule(str) ==
  IF Len(str) >= 3 /\ Run(str, 1, {"-", "*"}) = Len(str) THEN <<>> ELSE str

\* str.replace(/\|/g, ' ')
PipesToSpaces(str) ==
  [i \in DOMAIN str |-> IF str[i] = "|" THEN " " ELSE str[i]]

IsMarkdownChar(c) == c \in MarkdownChars

IsOther(c) == c \notin MarkdownChars

\* str.replace of every # * _ backtick ~ | by ''
RemoveSymbols(str) == SelectSeq(str, IsOther)

RECURSIVE Collapse(_, _)
\* str.replace(/\s+/g, ' ') from position i on
Collapse(str, i) ==
  IF i > Len(str)
    THEN <<>>
    ELSE IF str[i] = " " /\ i > 1 /\ str[i - 1] = " "
           THEN Collapse(str, i + 1)
           ELSE <<str[i]>> \o Collapse(str, i + 1)

\* String.prototype.trim
Trim(str) ==
  LET lead == Run(str, 1, {" "})
      rest == From(str, lead + 1)
      keep == {n \in 0..Len(rest) : n = 0 \/ rest[n] # " "}
      last == CHOOSE n \in keep : \A m \in keep : m <= n
  IN  SubSeq(rest, 1, last)

CleanWhitespace(str) == Trim(Collapse(str, 1))

cleanMarkdownForSpeech(text) ==
  IF text = <<>>
    THEN <<>>
    ELSE LET t1 == ReplaceCodeBlocks(text, 1)
             t2 == ReplaceDelimited(t1, 1, "backtick", 1, <<>>)
             t3 == RemoveHeaderMarks(t2)
             t4 == ReplaceDelimited(t3, 1, "*", 2, <<>>)
             t5 == ReplaceDelimited(t4, 1, "_", 2, <<>>)
             t6 == ReplaceDelimited(t5, 1, "*", 1, <<>>)
             t7 == ReplaceDelimited(t6, 1, "_", 1, <<>>)
             t8 == ReplaceDelimited(t7, 1, "~", 2, <<>>)
             t9 == RemoveRule(t8)
             t10 == PipesToSpaces(t9)
             t11 == RemoveSymbols(t10)
         IN  CleanWhitespace(t11)

\* the three header rules: /^#{1}\s+(.+)$/, /^#{2}\s+(.+)$/, /^#{3,6}\s+(.+)$/
SpeakHeader(str) ==
  LET h == Run(str, 1, {"#"})
      sp == Run(str, h + 1, {" "})
      rest == From(str, h + sp + 1)
      word == IF h = 1 THEN "Heading:"
              ELSE IF h = 2 THEN "Subheading:" ELSE "Section:"
  IN  IF h >= 1 /\ h <= 6 /\ sp >= 1 /\ rest # <<>>
        THEN <<word, " ">> \o rest \o <<".">>
        ELSE str

\* str.replace(/^[-*+]\s+(.+)$/gm, 'Item: $1.')
SpeakListItem(str) ==
  LET sp == Run(str, 2, {" "})
      rest == From(str, sp + 2)
  IN  IF str # <<>> /\ str[1] \in {"-", "*"} /\ sp >= 1 /\ rest # <<>>
        THEN <<"Item:", " ">> \o rest \o <<".">>
        ELSE str

formatForSpeech(text) ==
  IF text = <<>>
    THEN <<>>
    ELSE LET t1 == SpeakListItem(SpeakHeader(text))
             t2 == ReplaceDelimited(t1, 1, "*", 2, <<"emphasized", " ">>)
             t3 == ReplaceDelimited(t2, 1, "_", 2, <<"emphasized", " ">>)
             t4 == ReplaceDelimited(t3, 1, "*", 1, <<"emphasized", " ">>)
             t5 == ReplaceDelimited(t4, 1, "_", 1, <<"emphasized", " ">>)
             t6 == ReplaceDelimited(t5, 1, "backtick", 1, <<"code", " ">>)
             t7 == ReplaceCodeBlocks(t6, 1)
         IN  CleanWhitespace(t7)

\* a || b on strings: the empty string is falsy
OrElse(a, b) == IF a # <<>> THEN a ELSE b

\* const finalText = speechFormattedText || cleanedText || text
finalText(text) ==
  LET cleanedText == cleanMarkdownForSpeech(text)
      speechFormattedText == formatForSpeech(cleanedText)
  IN  OrElse(speechFormattedText, OrElse(cleanedText, text))

\* tx.text: the reply text; tx.by: the function that spoke it ("none" before);
\* tx.created: it created a SpeechSynthesisUtterance; tx.utterance: its text
NoText ==
  [text |-> <<>>, by |-> "none", created |-> FALSE, utterance |-> <<>>]

speakText(t, text) ==
  IF text = <<>>
    THEN [t EXCEPT !.by = "speakText"]
    ELSE [t EXCEPT !.by = "speakText", !.created = TRUE,
                   !.utterance = finalText(text)]

speakTextUtterance(t, text) ==
  IF text = <<>>
    THEN [t EXCEPT !.by = "speakTextWithInterruption"]
    ELSE [t EXCEPT !.by = "speakTextWithInterruption", !.created = TRUE,
                   !.utterance = finalText(text)]

\* ------------------------------------------------------------------------
\* Voice chat (Home): one recording is a getUserMedia request, a
\* MediaRecorder on its stream, and the onstop handler that converts and
\* submits the blob.  vc.recs keeps every recording with its position:
\*   asking      getUserMedia pending
\*   denied      getUserMedia rejected
\*   recording   MediaRecorder started
\*   stopping    stop() called, dataavailable and stop events queued
\*   rejected    onstop returned early (no chunk, or blob too small)
\*   converting  onstop awaits convertToWav
\*   sent        handleVoiceSubmit awaits voiceChat
\*   done        voiceChat resolved; failed: voiceChat threw
\* timer is the pending setTimeout(..., 300) of the recording's reply and
\* spoken records that speakText was called with that reply; own is the
\* size of the data the recording's own recorder delivered, blob the size
\* of the blob onstop built.
\* ------------------------------------------------------------------------
minBlobSize == 1000

BlobSizes == {0, 999, 1000}

Transcripts == {<<"a">>}

Replies == {<<>>, <<"a">>}

NoRecording ==
  [stage |-> "asking", tracks |-> "none", own |-> 0, blob |-> 0,
   transcript |-> <<>>, reply |-> <<>>, timer |-> FALSE, spoken |-> FALSE]

VoiceChat ==
  [voiceMessages |-> <<>>, isVoiceLoading |-> FALSE, isRecording |-> FALSE,
   isSpeaking |-> FALSE, error |-> "none", speechSynthesisRef |-> FALSE,
   mediaRecorderRef |-> 0, audioChunks |-> <<>>, recs |-> <<>>]

RECURSIVE Sum(_)
\* the size of new Blob(chunks)
Sum(chunks) ==
  IF chunks = <<>> THEN 0 ELSE Head(chunks) + Sum(Tail(chunks))

\* stopSpeaking on the voice chat part of Home
stopSpeaking_voice(v) ==
  IF v.speechSynthesisRef
    THEN [v EXCEPT !.isSpeaking = FALSE, !.speechSynthesisRef = FALSE]
    ELSE v

\* startRecording up to await getUserMedia
startRecording(v) ==
  [stopSpeaking_voice(v) EXCEPT !.recs = Append(@, NoRecording)]

\* startRecording after getUserMedia resolved for recording i
startRecording_granted(v, i) ==
  [v EXCEPT !.recs[i].stage = "recording", !.recs[i].tracks = "live",
            !.mediaRecorderRef = i, !.audioChunks = <<>>,
            !.isRecording = TRUE]

\* startRecording after getUserMedia rejected for recording i
startRecording_denied(v, i) ==
  [v EXCEPT !.recs[i].stage = "denied", !.error = "microphone"]

stopRecording(v) ==
  IF v.mediaRecorderRef # 0 /\ v.isRecording
    THEN [v EXCEPT !.recs[v.mediaRecorderRef].stage = "stopping",
                   !.isRecording = FALSE]
    ELSE v

\* mediaRecorder.ondataavailable
ondataavailable(v, size) ==
  IF size > 0 THEN [v EXCEPT !.audioChunks = Append(@, size)] ELSE v

\* mediaRecorder.onstop of recording i up to await convertToWav
onstop(v, i) ==
  IF Len(v.audioChunks) = 0
    THEN [v EXCEPT !.error = "noAudio", !.recs[i].tracks = "stopped",
                   !.recs[i].stage = "rejected"]
    ELSE IF Sum(v.audioChunks) < minBlobSize
           THEN [v EXCEPT !.error = "tooShort", !.recs[i].tracks = "stopped",
                          !.recs[i].stage = "rejected"]
           ELSE [v EXCEPT !.recs[i].blob = Sum(v.audioChunks),
                          !.recs[i].stage = "converting"]

\* handleVoiceSubmit up to await voiceChat
handleVoiceSubmit(v, i) ==
  [v EXCEPT !.isVoiceLoading = TRUE, !.error = "none",
            !.recs[i].stage = "sent"]

Message(role, content, i) == [role |-> role, content |-> content, of |-> i]

\* a failed submission that arms the speech timer all the same
handleVoiceSubmit_spoken(v, i) ==
  [v EXCEPT !.error = "voice", !.isVoiceLoading = FALSE,
            !.recs[i].timer = TRUE,
            !.recs[i].tracks = "stopped", !.recs[i].stage = "failed"]

\* handleVoiceSubmit after voiceChat threw, then the finally of onstop
handleVoiceSubmit_failed(v, i) ==
  [v EXCEPT !.error = "voice", !.isVoiceLoading = FALSE,
            !.recs[i].tracks = "stopped", !.recs[i].stage = "failed"]

\* handleVoiceSubmit after voiceChat resolved, then the finally of onstop
handleVoiceSubmit_replied(v, i, result) ==
  [v EXCEPT !.voiceMessages =
              @ \o <<Message("user", result.transcript, i),
                     Message("assistant", result.reply, i)>>,
            !.recs[i].transcript = result.transcript,
            !.recs[i].reply = result.reply,
            !.recs[i].timer = (result.reply # <<>>),
            !.isVoiceLoading = FALSE,
            !.recs[i].tracks = "stopped", !.recs[i].stage = "done"]

\* the state part of speakText(recs[i].reply), called by the timer
speakText_state(v, i) ==
  [v EXCEPT !.isSpeaking = TRUE, !.speechSynthesisRef = TRUE,
            !.recs[i].timer = FALSE, !.recs[i].spoken = TRUE]

\* utterance.onend and utterance.onerror
utteranceEnded(v) ==
  [v EXCEPT !.isSpeaking = FALSE, !.speechSynthesisRef = FALSE]

\* ------------------------------------------------------------------------
\* Actions.  Every handler runs on a committed render (~dirty): React
\* flushes a pending render and its effects before the next update.
\* ------------------------------------------------------------------------
\* link tells which specification runs: "wired" is the program as it is
\* composed, "open" has the forwarding link driven from outside.
SessionBound == IF link = "open" THEN MaxOpenSessions ELSE MaxSessions

ChunkBound == IF link = "open" THEN MaxOpenChunks ELSE MaxChunks

PendingBound == IF link = "open" THEN MaxOpenPending ELSE MaxPending

Fits(w) ==
  /\ w.tm.errLeaked <= MaxLeaked
  /\ w.tm.nextSession <= SessionBound + 1
  /\ w.tm.interruptTimers <= MaxTimers
  /\ Len(w.cp.slPending) <= PendingBound
  /\ w.cp.strayStreams <= MaxStray
  /\ w.home.speakTimers <= MaxTimers
  /\ w.home.engineQueue <= MaxUtterances
  /\ w.home.endEvents <= MaxUtterances

Set(w, e) ==
  /\ Fits(w)
  /\ conv' = w.conv
  /\ tm' = w.tm
  /\ cp' = w.cp
  /\ home' = w.home
  /\ dirty' = w.dirty
  /\ ev' = e
  /\ log' = w.log
  /\ link' = link
  /\ vd' = vd
  /\ tx' = tx
  /\ vc' = vc

CallParts ==
  /\ conv = initialState
  /\ tm = [errRef |-> FALSE, errLeaked |-> 0, armed |-> FALSE,
           sessionTimers |-> {},
           sessionTimeoutRef |-> 0, nextSession |-> 1, interruptTimers |-> 0]
  /\ cp = [vad |-> NoVad, audioStream |-> FALSE, strayStreams |-> 0,
           mediaRecorder |-> "null",
           audioChunks |-> 0, vadError |-> FALSE, restartTimer |-> FALSE,
           counted |-> FALSE,
           slPending |-> <<>>,
           last |-> [cs |-> "idle", mode |-> "idle", convMode |-> FALSE]]
  /\ home = [conversationalMode |-> FALSE, isCallRecording |-> FALSE,
             isCallProcessing |-> FALSE, isCallSpeaking |-> FALSE,
             error |-> FALSE, speechSynthesisRef |-> FALSE,
             request |-> "none", blob |-> 0, speakTimers |-> 0,
             engineQueue |-> 0, endEvents |-> 0]
  /\ dirty = FALSE
  /\ ev = "init"
  /\ log = <<>>
  /\ vd = VoiceActivityDetection
  /\ vc = VoiceChat

Components == CallParts /\ tx = NoText

Init == Components /\ link = "wired"

Commit ==
  /\ dirty
  /\ \E vadOk \in BOOLEAN : Set(CommitEffects(World, vadOk), "commit")

\* the toggle button is disabled while isProcessing outside a conversation
ToggleStart ==
  /\ ~dirty
  /\ conv.mode # "conversational"
  /\ ~home.isCallProcessing
  /\ Set(handleConversationToggle(World), "start")

ToggleEnd ==
  /\ ~dirty
  /\ conv.mode = "conversational"
  /\ Set(handleConversationToggle(World), "end")

RestartTimerFires ==
  /\ ~dirty
  /\ cp.restartTimer
  /\ \E vadOk \in BOOLEAN :
       Set(startListening([World EXCEPT !.cp.restartTimer = FALSE],
                          cp.last, vadOk), "restart")

\* getUserMedia settles for the oldest waiting startListening call
GetUserMediaResolves ==
  /\ ~dirty
  /\ cp.slPending # <<>>
  /\ \E vadOk \in BOOLEAN :
       LET cl == Head(cp.slPending)
           w1 == [World EXCEPT !.cp.slPending = Tail(@),
                               !.cp.strayStreams =
                                 IF cp.audioStream THEN @ + 1 ELSE @,
                               !.cp.audioStream = TRUE]
       IN  Set(startListeningRest(w1, cl, vadOk),
               IF cp.vad.exists \/ vadOk THEN "listen" ELSE "vadError")

GetUserMediaRejects ==
  /\ ~dirty
  /\ cp.slPending # <<>>
  /\ Set(setError([World EXCEPT !.cp.slPending = Tail(@)]), "micError")

SessionTimerFires ==
  /\ ~dirty
  /\ \E id \in tm.sessionTimers :
       Set(endConversation([World EXCEPT !.tm.sessionTimers = @ \ {id}]),
           "timeout")

ErrorTimerFires ==
  /\ ~dirty
  /\ \/ /\ tm.errRef
        /\ Set(dispatch([World EXCEPT !.tm.errRef = FALSE],
                        Act("RESET_ERROR")), "errorReset")
     \/ /\ tm.errLeaked > 0
        /\ Set(dispatch([World EXCEPT !.tm.errLeaked = @ - 1],
                        Act("RESET_ERROR")), "errorReset")

\* the Dismiss link is rendered while vadError or conversation.error is set
DismissError ==
  /\ ~dirty
  /\ cp.vadError \/ conv.error
  /\ Set(clearError([World EXCEPT !.cp.vadError = FALSE]), "dismiss")

DataAvailable ==
  /\ ~dirty
  /\ cp.mediaRecorder = "recording"
  /\ cp.audioChunks < ChunkBound
  /\ Set([World EXCEPT !.cp.audioChunks = @ + 1], "chunk")

\* The VAD's frame loop, reduced to its three outcomes (handleSpeechDetected
\* starting a segment, handleSpeechEnd, and the too-short reset of
\* handleSilenceDetected); SpecVAD below has the frames and the clock.
VadSpeechStart ==
  /\ ~dirty
  /\ cp.vad.exists /\ cp.vad.isActive /\ ~cp.vad.isSpeaking
  /\ Set(onSpeechStart([World EXCEPT !.cp.vad.isSpeaking = TRUE,
                                     !.cp.vad.heardIn = conv.currentState],
                       cp.vad),
         "speechStart")

VadSpeechEnd ==
  /\ ~dirty
  /\ cp.vad.exists /\ cp.vad.isActive /\ cp.vad.isSpeaking
  /\ Set(onSpeechEnd([World EXCEPT !.cp.vad.isSpeaking = FALSE,
                                   !.cp.vad.heardIn = "none"],
                     cp.vad),
         "speechEnd")

VadSpeechTooShort ==
  /\ ~dirty
  /\ cp.vad.exists /\ cp.vad.isActive /\ cp.vad.isSpeaking
  /\ Set([World EXCEPT !.cp.vad.isSpeaking = FALSE,
                       !.cp.vad.heardIn = "none"],
         "speechDiscarded")

Next ==
  \/ Commit
  \/ ToggleStart
  \/ ToggleEnd
  \/ RestartTimerFires
  \/ GetUserMediaResolves
  \/ GetUserMediaRejects
  \/ SessionTimerFires
  \/ ErrorTimerFires
  \/ DismissError
  \/ DataAvailable
  \/ VadSpeechStart
  \/ VadSpeechEnd
  \/ VadSpeechTooShort

Spec == Init /\ [][Next]_vars

\* ------------------------------------------------------------------------
\* The components with the forwarding link opened: in Spec no run reaches
\* processAudioInput (see C2), so the handlers behind it never run.  NextOpen
\* adds an environment that runs the processAudioInput of the latest render
\* during a call (one request in flight at a time), and the backend,
\* speech-synthesis and interrupt events that follow from it.
\* ------------------------------------------------------------------------
InitOpen == Components /\ link = "open"

VoiceInput ==
  /\ ~dirty
  /\ conv.mode = "conversational" /\ home.conversationalMode
  /\ cp.audioChunks > 0
  /\ home.request = "none"
  /\ Set(processAudioInput(World, Rendered(World)), "voiceInput")

BackendReplies ==
  /\ ~dirty
  /\ home.request # "none"
  /\ \E nonEmpty \in BOOLEAN :
       Set(callReplied(World, nonEmpty),
           IF nonEmpty THEN "reply" ELSE "replyEmpty")

BackendFails ==
  /\ ~dirty
  /\ home.request # "none"
  /\ Set(callFailed(World), "replyFailed")

SpeakTimerFires ==
  /\ ~dirty
  /\ home.speakTimers > 0
  /\ Set(speakTextWithInterruption([World EXCEPT !.home.speakTimers = @ - 1]),
         "speak")

UtteranceEnds ==
  /\ ~dirty
  /\ home.engineQueue > 0
  /\ Set(utteranceDone([World EXCEPT !.home.engineQueue = @ - 1]),
         "utteranceEnd")

UtteranceCancelled ==
  /\ ~dirty
  /\ home.endEvents > 0
  /\ Set(utteranceDone([World EXCEPT !.home.endEvents = @ - 1]),
         "utteranceCancelled")

\* the interrupt button is rendered while currentState is speaking
InterruptClick ==
  /\ ~dirty
  /\ conv.currentState = "speaking"
  /\ Set(handleInterrupt(World), "interrupt")

InterruptTimerFires ==
  /\ ~dirty
  /\ tm.interruptTimers > 0
  /\ Set(hookStartListening([World EXCEPT !.tm.interruptTimers = @ - 1]),
         "interruptTimer")

NextOpen ==
  \/ Next
  \/ VoiceInput
  \/ BackendReplies
  \/ BackendFails
  \/ SpeakTimerFires
  \/ UtteranceEnds
  \/ UtteranceCancelled
  \/ InterruptClick
  \/ InterruptTimerFires

SpecOpen == InitOpen /\ [][NextOpen]_vars

\* ------------------------------------------------------------------------
\* The hook alone: a client calls the functions useConversationState
\* returns, one call per committed render, so every callback reads the
\* state of the latest render; the hook's timers fire in between.
\* ------------------------------------------------------------------------
InitHook == Components /\ link = "hook"

HookRender ==
  /\ dirty
  /\ Set([World EXCEPT !.dirty = FALSE], "render")

HookStartConversation ==
  /\ ~dirty
  /\ Set(startConversation(World), "startConversation")

HookEndConversation ==
  /\ ~dirty
  /\ Set(endConversation(World), "endConversation")

HookStartListening ==
  /\ ~dirty
  /\ Set(hookStartListening(World), "startListening")

HookOnSpeechDetected ==
  /\ ~dirty
  /\ Set(onSpeechDetected(World, conv.currentState), "onSpeechDetected")

HookStartProcessing ==
  /\ ~dirty
  /\ Set(startProcessing(World), "startProcessing")

HookStartSpeaking ==
  /\ ~dirty
  /\ Set(startSpeaking(World, conv.exchangeCount), "startSpeaking")

HookFinishSpeaking ==
  /\ ~dirty
  /\ Set(finishSpeaking(World), "finishSpeaking")

HookInterruptSpeaking ==
  /\ ~dirty
  /\ Set(interruptSpeaking(World, conv.canInterrupt), "interruptSpeaking")

HookSetError ==
  /\ ~dirty
  /\ Set(setError(World), "setError")

HookClearError ==
  /\ ~dirty
  /\ Set(clearError(World), "clearError")

HookUpdateSession ==
  /\ ~dirty
  /\ Set(updateSession(World), "updateSession")

NextHook ==
  \/ HookRender
  \/ HookStartConversation
  \/ HookEndConversation
  \/ HookStartListening
  \/ HookOnSpeechDetected
  \/ HookStartProcessing
  \/ HookStartSpeaking
  \/ HookFinishSpeaking
  \/ HookInterruptSpeaking
  \/ HookSetError
  \/ HookClearError
  \/ HookUpdateSession
  \/ SessionTimerFires
  \/ ErrorTimerFires
  \/ InterruptTimerFires

SpecHook == InitHook /\ [][NextHook]_vars

\* ------------------------------------------------------------------------
\* The detector alone, driven by frames: each frame comes some time after
\* the one before and has a volume at or above the threshold.
\* ------------------------------------------------------------------------
InitVAD == Components /\ link = "vad"

SetVAD(d, e) ==
  /\ vd' = d
  /\ ev' = e
  /\ UNCHANGED <<conv, tm, cp, home, dirty, log, link, tx, vc>>

VadStart ==
  /\ ~vd.isActive
  /\ \E volume \in Volumes : SetVAD(start(vd, volume), "vadStart")

\* stop may be called again on a stopped detector
VadStop ==
  /\ \E dt \in 0..MaxStep :
       /\ vd.now + dt <= MaxTime
       /\ SetVAD(stop(vd, vd.now + dt), "vadStop")

Frame ==
  /\ vd.isActive
  /\ \E dt \in 1..MaxStep, volume \in Volumes :
       /\ vd.now + dt <= MaxTime
       /\ SetVAD(analyzeAudio(vd, volume, vd.now + dt),
                 IF volume > silenceThreshold THEN "speech" ELSE "silence")

\* a turn of the loop that runs after stop
StaleFrame ==
  /\ ~vd.isActive
  /\ \E volume \in Volumes :
       SetVAD(analyzeAudio(vd, volume, vd.now), "staleFrame")

NextVAD ==
  \/ VadStart
  \/ VadStop
  \/ Frame
  \/ StaleFrame

SpecVAD == InitVAD /\ [][NextVAD]_vars

\* ------------------------------------------------------------------------
\* The speech functions alone, applied to every text of the bound.
\* ------------------------------------------------------------------------
InitText ==
  /\ CallParts
  /\ link = "text"
  /\ tx \in {[NoText EXCEPT !.text = t] : t \in Texts}

SetText(t, e) ==
  /\ tx' = t
  /\ ev' = e
  /\ UNCHANGED <<conv, tm, cp, home, dirty, log, link, vd, vc>>

SpeakText ==
  /\ tx.by = "none"
  /\ SetText(speakText(tx, tx.text), "speakText")

SpeakTextWithInterruption ==
  /\ tx.by = "none"
  /\ SetText(speakTextUtterance(tx, tx.text), "speakTextWithInterruption")

NextText ==
  \/ SpeakText
  \/ SpeakTextWithInterruption

SpecText == InitText /\ [][NextText]_vars

\* ------------------------------------------------------------------------
\* Voice chat alone.  The record button is disabled while isVoiceLoading or
\* isSpeaking and starts or stops by isRecording.  The events a stopped
\* recorder has queued are delivered before the next click is handled.
\* ------------------------------------------------------------------------
InitVoice == Components /\ link = "voice"

SetVoice(v, t, e) ==
  /\ vc' = v
  /\ tx' = t
  /\ ev' = e
  /\ UNCHANGED <<conv, tm, cp, home, dirty, log, link, vd>>

Stage(s) == {i \in DOMAIN vc.recs : vc.recs[i].stage = s}

ButtonEnabled ==
  /\ ~vc.isVoiceLoading
  /\ ~vc.isSpeaking
  /\ Stage("stopping") = {}

StartRecording ==
  /\ ButtonEnabled
  /\ ~vc.isRecording
  /\ Len(vc.recs) < MaxRecordings
  /\ SetVoice(startRecording(vc), tx, "startRecording")

MicrophoneGranted ==
  \E i \in Stage("asking") :
    SetVoice(startRecording_granted(vc, i), tx, "granted")

MicrophoneDenied ==
  \E i \in Stage("asking") :
    SetVoice(startRecording_denied(vc, i), tx, "denied")

StopRecording ==
  /\ ButtonEnabled
  /\ vc.isRecording
  /\ SetVoice(stopRecording(vc), tx, "stopRecording")

\* the final dataavailable event, then the stop event
RecorderStopped ==
  \E i \in Stage("stopping"), size \in BlobSizes :
    SetVoice(onstop(ondataavailable([vc EXCEPT !.recs[i].own = size], size),
                    i),
             tx, "onstop")

Converted ==
  \E i \in Stage("converting") :
    SetVoice(handleVoiceSubmit(vc, i), tx, "submit")

VoiceReplies ==
  \E i \in Stage("sent"), transcript \in Transcripts, reply \in Replies :
    SetVoice(handleVoiceSubmit_replied(vc, i,
               [transcript |-> transcript, reply |-> reply]),
             tx, "voiceReplied")

VoiceFails ==
  \E i \in Stage("sent") :
    SetVoice(handleVoiceSubmit_failed(vc, i), tx, "voiceFailed")

VoiceSpeakTimerFires ==
  \E i \in DOMAIN vc.recs :
    /\ vc.recs[i].timer
    /\ SetVoice(speakText_state(vc, i),
                speakText([NoText EXCEPT !.text = vc.recs[i].reply],
                          vc.recs[i].reply),
                "voiceSpeak")

VoiceUtteranceEnds ==
  /\ vc.speechSynthesisRef
  /\ SetVoice(utteranceEnded(vc), tx, "utteranceEnded")

NextVoice ==
  \/ StartRecording
  \/ MicrophoneGranted
  \/ MicrophoneDenied
  \/ StopRecording
  \/ RecorderStopped
  \/ Converted
  \/ VoiceReplies
  \/ VoiceFails
  \/ VoiceSpeakTimerFires
  \/ VoiceUtteranceEnds

SpecVoice == InitVoice /\ [][NextVoice]_vars

\* ========================================================================
\* Properties
\* ========================================================================
Count(seq, x) == Cardinality({i \in DOMAIN seq : seq[i] = x})

Dispatched(seq, x) == \E i \in DOMAIN seq : seq[i] = x

LiveCall == conv.mode = "conversational" /\ home.conversationalMode

\* nothing is pending that could still move the conversation on its own:
\* no render, request, utterance, or timer other than the session timeout
Quiescent ==
  /\ ~dirty
  /\ home.request = "none" /\ home.speakTimers = 0
  /\ home.engineQueue = 0 /\ home.endEvents = 0
  /\ ~tm.errRef /\ tm.errLeaked = 0 /\ tm.interruptTimers = 0
  /\ ~cp.restartTimer /\ cp.slPending = <<>>

\* ---- C1 ---------------------------------------------------------------
ListedTransitions ==
  {<<"idle", "listening">>, <<"listening", "processing">>,
   <<"processing", "speaking">>, <<"speaking", "listening">>,
   <<"speaking", "interrupted">>, <<"interrupted", "listening">>,
   <<"error", "listening">>}

\* C1: during a live call currentState changes only along idle->listening,
\* listening->processing, processing->speaking, speaking->listening,
\* speaking->interrupted, interrupted->listening, any->error,
\* error->listening, and any->idle when the conversation ends.
C1_OnlyListedTransitions ==
  [][(conv.mode = "conversational" /\ conv'.currentState # conv.currentState)
       => \/ <<conv.currentState, conv'.currentState>> \in ListedTransitions
          \/ conv'.currentState = "error"
          \/ conv'.currentState = "idle" /\ Dispatched(log', "END_CONVERSATION")
    ]_vars

\* ---- C2 ---------------------------------------------------------------
\* C2: in an active live call a captured speech segment enters the
\* listen->process->speak loop: when the detector ends a segment while audio
\* has been recorded, the segment is handed on and a backend request is in
\* flight after the step (the reply to it is what gets spoken).
C2_CapturedSegmentIsProcessed ==
  [][(ev' = "speechEnd" /\ LiveCall /\ cp.audioChunks > 0
        /\ conv.currentState \in {"listening", "processing"})
       => home'.request # "none"]_vars

\* ---- C3 ---------------------------------------------------------------
\* C3: after the backend request of a captured utterance has failed during
\* a live call, the conversation is not left in processing with nothing
\* pending that would return it to listening.
C3_FailureReturnsToListening ==
  ~(LiveCall /\ conv.currentState = "processing" /\ home.error /\ Quiescent)

\* ---- C4 ---------------------------------------------------------------
\* C4: while currentState is speaking and an utterance is being spoken, an
\* onSpeechStart of the detector cancels the utterance and moves
\* currentState out of speaking.
C4_SpeechInterruptsSpeaking ==
  [][(ev' = "speechStart" /\ conv.currentState = "speaking"
        /\ home.isCallSpeaking /\ home.engineQueue > 0)
       => /\ conv'.currentState # "speaking"
          /\ ~home'.isCallSpeaking
          /\ home'.engineQueue = 0]_vars

\* ---- C5 ---------------------------------------------------------------
\* C5: the interrupt control, used while currentState is speaking and an
\* utterance is in flight, makes currentState interrupted, cancels the
\* utterance (isCallSpeaking false, nothing left in the engine) and arms the
\* 100 ms timer; when that timer fires currentState becomes listening.
C5_InterruptControl ==
  [][/\ (ev' = "interrupt" /\ conv.currentState = "speaking"
           /\ home.isCallSpeaking /\ home.speechSynthesisRef)
          => /\ conv'.currentState = "interrupted"
             /\ ~home'.isCallSpeaking
             /\ home'.engineQueue = 0
             /\ tm'.interruptTimers = tm.interruptTimers + 1
     /\ (ev' = "interruptTimer" /\ tm.interruptTimers > 0)
          => /\ conv'.currentState = "listening"
             /\ tm'.interruptTimers = tm.interruptTimers - 1
    ]_vars

C5_Witness ==
  /\ ev = "interruptTimer"
  /\ conv.currentState = "listening" /\ conv.mode = "conversational"
  /\ ~home.isCallSpeaking /\ conv.exchangeCount > 0

\* ---- C6 ---------------------------------------------------------------
\* C6: a running conversation has its session timer pending, the timer's
\* firing leaves mode idle, currentState idle and isActive false, and no
\* timer of a session that was ended is pending any more.
C6_SessionTimeout ==
  /\ conv.sessionId # 0 => conv.sessionId \in tm.sessionTimers
  /\ ev = "timeout" =>
       conv.mode = "idle" /\ conv.currentState = "idle" /\ ~conv.isActive
  /\ \A id \in tm.sessionTimers : id = conv.sessionId /\ id # 0

C6_Witness ==
  /\ ev = "timeout"
  /\ tm.nextSession > 2
  /\ tm.sessionTimers = {}

\* ---- C7 ---------------------------------------------------------------
\* C7: a step that ends with setError leaves currentState error, error set
\* and the auto-clear timer armed; when that timer fires in the error state
\* the error becomes null and currentState becomes listening in
\* conversational mode, idle otherwise.
C7_ErrorAutoClear ==
  [][/\ (log' # <<>> /\ log'[Len(log')] = "ERROR_OCCURRED")
          => conv'.currentState = "error" /\ conv'.error /\ tm'.errRef
     /\ (ev' = "errorReset" /\ conv.currentState = "error")
          => /\ ~conv'.error
             /\ conv'.currentState =
                  (IF conv.mode = "conversational" THEN "listening" ELSE "idle")
    ]_vars

C7_Witness ==
  /\ ev = "errorReset"
  /\ log = <<"RESET_ERROR">>
  /\ conv.currentState = "listening" /\ ~conv.error
  /\ ~tm.errRef /\ tm.errLeaked = 0

\* ---- C8 ---------------------------------------------------------------
\* C8: exchangeCount never exceeds maxExchanges, and the startSpeaking call
\* of the speaking-sync effect made with exchangeCount >= maxExchanges
\* applies END_CONVERSATION exactly once and no START_SPEAKING, leaving
\* currentState idle.
C8_MaxExchanges ==
  [][/\ conv'.exchangeCount <= maxExchanges
     /\ (ev' = "commit" /\ home.isCallSpeaking /\ conv.currentState # "speaking"
           /\ conv.exchangeCount >= maxExchanges)
          => /\ Count(log', "END_CONVERSATION") = 1
             /\ ~Dispatched(log', "START_SPEAKING")
             /\ conv'.currentState = "idle"
    ]_vars

C8_Witness ==
  /\ ev = "commit"
  /\ Dispatched(log, "END_CONVERSATION")
  /\ conv.exchangeCount = maxExchanges
  /\ home.isCallSpeaking
  /\ conv.currentState = "idle"

\* ---- C9 ---------------------------------------------------------------
\* frames i..j-1 are a maximal run of above-threshold frames that frame j
\* ends, and less than minSpeechDuration passes from frame i to frame j
ShortBurst(fr, i, j) ==
  /\ i < j
  /\ \A k \in i..(j - 1) : fr[k].speech
  /\ ~fr[j].speech
  /\ i = 1 \/ ~fr[i - 1].speech
  /\ fr[j].t - fr[i].t < minSpeechDuration

\* C9: a burst of above-threshold frames shorter than minSpeechDuration
\* produces no callback: none is invoked at any of the burst's frames.
C9_ShortBurstFiresNothing ==
  \A i, j \in DOMAIN vd.frames :
    ShortBurst(vd.frames, i, j) =>
      \A c \in DOMAIN vd.calls :
        ~(vd.frames[i].t <= vd.calls[c].t /\ vd.calls[c].t < vd.frames[j].t)

\* ---- C10 --------------------------------------------------------------
RECURSIVE SilenceRunStart(_, _)
\* the time of the first frame of the run of below-threshold frames that
\* ends at frame n
SilenceRunStart(fr, n) ==
  IF n > 1 /\ ~fr[n - 1].speech THEN SilenceRunStart(fr, n - 1) ELSE fr[n].t

\* C10: a below-threshold frame invokes onSpeechEnd only when the run of
\* below-threshold frames it belongs to has lasted longer than speechTimeout
\* and the time from the segment's first speech frame to the start of that
\* run is at least minSpeechDuration; that time is the duration passed to
\* the callback; and while the run has not lasted longer than speechTimeout
\* the segment stays open and nothing is invoked.
C10_SilenceEndsSegment ==
  [][ev' = "silence" =>
       LET n == Len(vd'.frames)
           runStart == SilenceRunStart(vd'.frames, n)
           silence == vd'.frames[n].t - runStart
       IN  /\ Dispatched(vd'.fired, "onSpeechEnd")
                => /\ silence > speechTimeout
                   /\ runStart - vd.segStart >= minSpeechDuration
                   /\ vd'.reported = runStart - vd.segStart
           /\ (vd.isSpeaking /\ silence <= speechTimeout)
                => vd'.isSpeaking /\ vd'.fired = <<>>
    ]_vars

C10_Witness ==
  /\ ev = "silence"
  /\ vd.fired = <<"onSpeechEnd">>
  /\ vd.reported >= minSpeechDuration
  /\ \E k \in DOMAIN vd.frames :
       /\ ~vd.frames[k].speech
       /\ \E m \in DOMAIN vd.frames : m > k /\ vd.frames[m].speech
       /\ \E m \in DOMAIN vd.frames : m < k /\ vd.frames[m].speech

\* ---- C11 --------------------------------------------------------------
\* C11: an onSpeechEnd that occurs while the conversation is in processing
\* and chunks are buffered makes one onVoiceInput call whose blob holds all
\* the buffered chunks, and leaves the buffer empty.
C11_SpeechEndForwardsChunks ==
  [][(ev' = "speechEnd" /\ conv.currentState = "processing"
        /\ cp.audioChunks > 0 /\ home.request = "none")
       => /\ home'.request # "none"
          /\ home'.blob = cp.audioChunks
          /\ cp'.audioChunks = 0]_vars

\* ---- C12 --------------------------------------------------------------
\* C12: the conversation tracks the parent's speaking signal: the commit
\* that sees isSpeaking true outside speaking enters speaking, the commit
\* that sees isSpeaking false in speaking leaves it, and whenever no render
\* is pending currentState is speaking exactly when isSpeaking is true.
C12_TracksSpeakingSignal ==
  [][/\ (ev' = "commit" /\ home.isCallSpeaking
           /\ conv.currentState # "speaking")
          => conv'.currentState = "speaking"
     /\ (ev' = "commit" /\ ~home.isCallSpeaking
           /\ conv.currentState = "speaking")
          => conv'.currentState # "speaking"
     /\ ~dirty' => (conv'.currentState = "speaking" <=> home'.isCallSpeaking)
    ]_vars

\* ---- C13 --------------------------------------------------------------
\* C13: the text speakText and speakTextWithInterruption hand to speech
\* synthesis for a non-empty reply contains none of # * _ backtick ~ |.
C13_SpokenTextHasNoMarkdown ==
  (tx.by # "none" /\ tx.text # <<>>)
    => /\ tx.created
       /\ \A i \in DOMAIN tx.utterance : tx.utterance[i] \notin MarkdownChars

\* C14: in voice chat, when the backend call of a stopped recording succeeds
\* exactly two messages are appended, the user transcript followed by the
\* assistant reply, and a non-empty reply is then handed to speakText; when
\* the call fails no message is appended and nothing is spoken.
C14_VoiceReplyAppendedAndSpoken ==
  /\ [](\A i \in DOMAIN vc.recs :
          LET r == vc.recs[i]
              mine == {k \in DOMAIN vc.voiceMessages :
                         vc.voiceMessages[k].of = i}
          IN  /\ r.stage = "done" =>
                   /\ \E k \in mine :
                        /\ mine = {k, k + 1}
                        /\ vc.voiceMessages[k] = Message("user", r.transcript, i)
                        /\ vc.voiceMessages[k + 1] = Message("assistant", r.reply, i)
                   /\ r.reply # <<>> => (r.timer \/ r.spoken)
              /\ r.stage = "failed" => mine = {} /\ ~r.timer /\ ~r.spoken
              /\ r.stage \notin {"done", "failed"} => mine = {})
  /\ [][/\ ev' = "voiceReplied" =>
             /\ Len(vc'.voiceMessages) = Len(vc.voiceMessages) + 2
             /\ SubSeq(vc'.voiceMessages, 1, Len(vc.voiceMessages))
                  = vc.voiceMessages
        /\ ev' = "voiceFailed" =>
             /\ vc'.voiceMessages = vc.voiceMessages
             /\ tx' = tx
        /\ \A i \in DOMAIN vc.recs :
             (vc.recs[i].timer /\ ~vc'.recs[i].timer) =>
               /\ tx'.by = "speakText"
               /\ tx'.text = vc.recs[i].reply
               /\ tx'.created
               /\ vc'.recs[i].spoken]_vars

C14_Witness ==
  /\ \E i \in DOMAIN vc.recs :
       /\ vc.recs[i].stage = "done"
       /\ vc.recs[i].spoken
       /\ tx.text = vc.recs[i].reply
  /\ \E j \in DOMAIN vc.recs : vc.recs[j].stage = "failed"
  /\ Len(vc.voiceMessages) = 2

\* C15: a speech burst that the detector discards as too short leaves a live
\* call that was listening when the burst began in listening, with the
\* buffered chunks cleared.
C15_ShortBurstKeepsListening ==
  [][(ev' = "speechDiscarded" /\ LiveCall /\ cp.vad.heardIn = "listening")
       => /\ conv'.currentState = "listening"
          /\ cp'.audioChunks = 0]_vars

\* C16: a speech start of the detector moves the conversation to processing
\* only when the conversation is listening at that moment; in idle,
\* processing, speaking, interrupted and error it leaves currentState as it
\* is.
C16_SpeechStartOnlyFromListening ==
  [][ev' = "speechStart"
       => /\ conv'.currentState # conv.currentState
            => (conv.currentState = "listening"
                  /\ conv'.currentState = "processing")
          /\ conv.currentState # "listening"
            => conv'.currentState = conv.currentState]_vars

\* C17: interruptSpeaking moves currentState to interrupted only from
\* speaking; called in any other state it leaves the conversation state as
\* it is and schedules no return to listening.
C17_InterruptOnlyWhileSpeaking ==
  [][(ev' = "interruptSpeaking" /\ conv.currentState # "speaking")
       => /\ conv' = conv
          /\ tm'.interruptTimers = tm.interruptTimers]_vars

\* C18: once clearError or endConversation has returned, no error timer
\* dispatches RESET_ERROR until setError is called again, whatever setError
\* calls came before, two in a row included.
C18_ClearErrorCancelsTimers ==
  [][ev' = "errorReset" => tm.armed]_vars

\* C19: during a live call exchangeCount counts the replies whose speech
\* was started: each START_SPEAKING adds exactly 1, and none is dispatched
\* for a reply that has been counted already.
C19_OneCountPerReply ==
  [][(LiveCall /\ Dispatched(log', "START_SPEAKING"))
       => /\ conv'.exchangeCount = conv.exchangeCount + 1
          /\ ~cp.counted]_vars

\* C20: startConversation yields a fresh session whatever state it is
\* called in.
C20_StartConversationIsFresh ==
  [][ev' = "startConversation"
       => /\ conv'.mode = "conversational"
          /\ conv'.currentState = "listening"
          /\ conv'.isActive
          /\ conv'.sessionId # 0
          /\ conv'.startTime
          /\ conv'.exchangeCount = 0
          /\ ~conv'.error
          /\ ~conv'.canInterrupt]_vars

\* C21: endConversation, from any state, sets mode and currentState to
\* idle, isActive and canInterrupt to false, sessionId, startTime and error
\* to null, and leaves exchangeCount and metadata as they were.
C21_EndConversationFrame ==
  [][ev' \in {"endConversation", "timeout"}
       => /\ conv'.mode = "idle"
          /\ conv'.currentState = "idle"
          /\ ~conv'.isActive
          /\ ~conv'.canInterrupt
          /\ conv'.sessionId = 0
          /\ ~conv'.startTime
          /\ ~conv'.error
          /\ conv'.exchangeCount = conv.exchangeCount
          /\ conv'.metadata = conv.metadata]_vars

C21_Witness ==
  /\ ev = "endConversation"
  /\ conv.mode = "idle"
  /\ conv.exchangeCount > 0
  /\ conv.metadata = "set"

\* C22: finishSpeaking and the error reset set currentState to listening in
\* conversational mode and to idle in idle mode; besides currentState and
\* lastActivity, finishSpeaking changes only canInterrupt (to false) and the
\* reset only error (to null).
C22_ModeChoosesTarget ==
  [][LET target == IF conv.mode = "conversational" THEN "listening"
                   ELSE "idle"
     IN  /\ ev' = "finishSpeaking"
           => conv' = [conv EXCEPT !.currentState = target,
                                   !.canInterrupt = FALSE,
                                   !.lastActivity = conv'.lastActivity]
         /\ ev' \in {"clearError", "errorReset"}
           => conv' = [conv EXCEPT !.currentState = target,
                                   !.error = FALSE,
                                   !.lastActivity = conv'.lastActivity]]_vars

C22_Witness ==
  /\ ev = "finishSpeaking"
  /\ conv.mode = "idle"
  /\ conv.currentState = "idle"
  /\ conv.exchangeCount > 0
  /\ conv.metadata = "set"

\* C23: right after the user ends the conversation with the toggle, the
\* detector is destroyed, the MediaRecorder is stopped, every microphone
\* track is stopped, the chunk buffer is empty, vadRef, mediaRecorderRef and
\* audioStreamRef are null, and Home has reset conversationalMode,
\* isCallRecording, isCallProcessing and isCallSpeaking.
C23_ToggleEndCleansUp ==
  [][ev' = "end"
       => /\ ~cp'.vad.exists /\ ~cp'.vad.isActive
          /\ cp'.mediaRecorder = "null"
          /\ ~cp'.audioStream
          /\ cp'.strayStreams = 0
          /\ cp'.audioChunks = 0
          /\ ~home'.conversationalMode
          /\ ~home'.isCallRecording
          /\ ~home'.isCallProcessing
          /\ ~home'.isCallSpeaking]_vars

\* C24: an above-threshold frame that comes more than maxSpeechDuration
\* after the start of the open segment ends the segment: onSpeechEnd is
\* invoked once with a duration above maxSpeechDuration and isSpeaking
\* becomes false, so after an above-threshold frame no segment is open for
\* longer than maxSpeechDuration.
C24_MaxSpeechDurationCutoff ==
  [][ev' = "speech"
       => /\ (vd.isSpeaking
                /\ vd'.now - vd.speechStartTime > maxSpeechDuration)
               => /\ Count(vd'.fired, "onSpeechEnd") = 1
                  /\ vd'.reported > maxSpeechDuration
                  /\ ~vd'.isSpeaking
          /\ vd'.isSpeaking
               => vd'.now - vd'.speechStartTime <= maxSpeechDuration]_vars

C24_Witness ==
  /\ ev = "speech"
  /\ vd.fired = <<"onSpeechEnd">>
  /\ vd.reported > maxSpeechDuration
  /\ ~vd.isSpeaking

\* C25: stop makes the detector inactive and invokes onSpeechEnd exactly
\* once when a segment is open and nothing otherwise; a stopped detector
\* invokes no onSpeechStart, onSpeechEnd or onVolumeChange until start is
\* called, whether its loop runs again or stop is called a second time.
C25_StopSilencesDetector ==
  [][/\ ev' = "vadStop"
          => /\ ~vd'.isActive
             /\ ~vd'.isSpeaking
             /\ vd.isSpeaking => vd'.fired = <<"onSpeechEnd">>
             /\ ~vd.isSpeaking => vd'.fired = <<>>
     /\ (~vd.isActive /\ ev' # "vadStart")
          => /\ vd'.fired = <<>>
             /\ ~vd'.volume
             /\ vd'.calls = vd.calls]_vars

C25_Witness ==
  /\ ev = "vadStop"
  /\ ~vd.isActive
  /\ vd.fired = <<"onSpeechEnd">>

\* C26: in voice chat a stopped recording that delivered no chunk, or less
\* than 1000 bytes, is rejected: an error is set, nothing is sent to the
\* backend and no message is appended; and whether a stopped recording is
\* rejected, submitted with success or submitted with failure, the tracks
\* of its stream are stopped.
C26_SmallRecordingRejected ==
  /\ [](\A i \in DOMAIN vc.recs :
          LET r == vc.recs[i]
          IN  /\ r.stage \in {"converting", "sent", "done", "failed"}
                   => r.own >= minBlobSize
              /\ r.stage = "rejected"
                   => \A k \in DOMAIN vc.voiceMessages :
                        vc.voiceMessages[k].of # i
              /\ r.stage \in {"rejected", "done", "failed"}
                   => r.tracks = "stopped")
  /\ [][\A i \in DOMAIN vc.recs :
          (vc.recs[i].stage = "stopping" /\ vc'.recs[i].stage = "rejected")
            => /\ vc'.error \in {"noAudio", "tooShort"}
               /\ vc'.voiceMessages = vc.voiceMessages
               /\ vc'.isVoiceLoading = vc.isVoiceLoading]_vars

====
